---- MODULE Spec2Model ----
(***************************************************************************)
(* The test-run progress tracker: TestRunner (src/unnamed/part_002) and    *)
(* the category-by-category driver runTestSuite with its output parser     *)
(* (src/core/base-setup.ts), as used by the HTTP routes of                 *)
(* src/templates/generic-page-test.ts.                                     *)
(*                                                                         *)
(* Text is a sequence of characters; a character is a one-element token.   *)
(* The three marker characters of the verbose reporter are not ASCII, so   *)
(* they are written "check", "cross" and "down"; "nl" is the line feed.    *)
(***************************************************************************)
EXTENDS Integers, Sequences, FiniteSets, TLC

VARIABLES project, testRuns, testCases, runner, exec, timer, now, faults, api, parse

vars == <<project, testRuns, testCases, runner, exec, timer, now, faults, api, parse>>

(***************************************************************************)
(* Text helpers                                                            *)
(***************************************************************************)
passMarker == "check"
failMarker == "cross"
skipMarker == "down"
NL == "nl"

Digits == {"0", "1", "2", "3", "4", "5", "6", "7", "8", "9"}

DigitValue(c) ==
  CASE c = "0" -> 0 [] c = "1" -> 1 [] c = "2" -> 2 [] c = "3" -> 3
    [] c = "4" -> 4 [] c = "5" -> 5 [] c = "6" -> 6 [] c = "7" -> 7
    [] c = "8" -> 8 [] c = "9" -> 9

IsSpace(c) == c \in {" ", NL}

Slice(s, a, b) == IF a > b THEN <<>> ELSE SubSeq(s, a, b)

AllIn(s, a, b, S) == \A k \in a..b : s[k] \in S

RECURSIVE Split(_, _)
\* String.prototype.split on a one-character separator
Split(s, sep) ==
  IF \A k \in 1..Len(s) : s[k] # sep
  THEN <<s>>
  ELSE LET k == CHOOSE j \in 1..Len(s) :
                  s[j] = sep /\ \A h \in 1..(j - 1) : s[h] # sep
       IN  <<Slice(s, 1, k - 1)>> \o Split(Slice(s, k + 1, Len(s)), sep)

Trim(s) ==
  IF \A k \in 1..Len(s) : IsSpace(s[k])
  THEN <<>>
  ELSE LET a == CHOOSE j \in 1..Len(s) :
                  ~IsSpace(s[j]) /\ \A h \in 1..(j - 1) : IsSpace(s[h])
           b == CHOOSE j \in 1..Len(s) :
                  ~IsSpace(s[j]) /\ \A h \in (j + 1)..Len(s) : IsSpace(s[h])
       IN  SubSeq(s, a, b)

StartsWith(s, c) == Len(s) >= 1 /\ s[1] = c

Separator == <<" ", ">", " ">>

SepAt(s, k) == k + 2 <= Len(s) /\ SubSeq(s, k, k + 2) = Separator

RECURSIVE SplitSep(_)
\* label.split(' > ')
SplitSep(s) ==
  IF \A k \in 1..Len(s) : ~SepAt(s, k)
  THEN <<s>>
  ELSE LET k == CHOOSE j \in 1..Len(s) :
                  SepAt(s, j) /\ \A h \in 1..(j - 1) : ~SepAt(s, h)
       IN  <<Slice(s, 1, k - 1)>> \o SplitSep(Slice(s, k + 3, Len(s)))

RECURSIVE JoinSep(_)
\* parts.join(' > ')
JoinSep(parts) ==
  IF Len(parts) = 0 THEN <<>>
  ELSE IF Len(parts) = 1 THEN parts[1]
  ELSE parts[1] \o Separator \o JoinSep(Tail(parts))

RECURSIVE ParseInt(_)
\* parseInt of a non-empty run of decimal digits
ParseInt(ds) ==
  IF Len(ds) = 0 THEN 0
  ELSE 10 * ParseInt(SubSeq(ds, 1, Len(ds) - 1)) + DigitValue(ds[Len(ds)])

(***************************************************************************)
(* parseAndUpdateTestCounts: the regular expressions and the line loop     *)
(***************************************************************************)
unknown == <<"u", "n", "k", "n", "o", "w", "n">>

genericError == "Test failed - check logs for details"

\* The ways /^M\s+(.+?)\s+(\d+)ms$/ can lay itself over the line t:
\* t[2..a] is the first \s+, t[a+1..c-1] the label, t[c..d-1] the second
\* \s+, t[d..n-2] the digits, followed by "ms" at the end of the line.
TimedLayouts(t, marker) ==
  LET n == Len(t)
  IN  IF n < 7 \/ t[1] # marker \/ t[n] # "s" \/ t[n - 1] # "m"
      THEN {}
      ELSE {l \in (2..n) \X (2..n) \X (2..n) :
              /\ AllIn(t, 2, l[1], {" ", NL})
              /\ l[2] >= l[1] + 2
              /\ l[3] >= l[2] + 1
              /\ AllIn(t, l[2], l[3] - 1, {" ", NL})
              /\ l[3] <= n - 2
              /\ AllIn(t, l[3], n - 2, Digits)}

\* trimmed.match(passedRegex) / trimmed.match(failedRegex): the first \s+ is
\* greedy (longest first), the label lazy (shortest first).
MatchTimed(t, marker) ==
  LET ls == TimedLayouts(t, marker)
  IN  IF ls = {}
      THEN [matched |-> FALSE, label |-> <<>>, digits |-> <<>>]
      ELSE LET a == CHOOSE x \in {l[1] : l \in ls} :
                      \A y \in {l[1] : l \in ls} : y <= x
               c == CHOOSE x \in {l[2] : l \in {m \in ls : m[1] = a}} :
                      \A y \in {l[2] : l \in {m \in ls : m[1] = a}} : x <= y
               d == CHOOSE x \in {l[3] : l \in {m \in ls : m[1] = a /\ m[2] = c}} :
                      TRUE
           IN  [matched |-> TRUE,
                label   |-> SubSeq(t, a + 1, c - 1),
                digits  |-> SubSeq(t, d, Len(t) - 2)]

\* trimmed.match(skippedRegex): /^M\s+(.+)$/
MatchSkipped(t) ==
  LET n  == Len(t)
      as == {a \in 2..(n - 1) : AllIn(t, 2, a, {" ", NL})}
  IN  IF n < 3 \/ t[1] # skipMarker \/ as = {}
      THEN [matched |-> FALSE, label |-> <<>>]
      ELSE LET a == CHOOSE x \in as : \A y \in as : y <= x
           IN  [matched |-> TRUE, label |-> SubSeq(t, a + 1, n)]

\* suite: parts[0] || 'unknown';  name: parts.slice(1).join(' > ') || match[1]
SuiteOf(label) ==
  LET parts == SplitSep(label)
  IN  IF parts[1] = <<>> THEN unknown ELSE parts[1]

NameOf(label) ==
  LET rest == JoinSep(Tail(SplitSep(label)))
  IN  IF rest = <<>> THEN label ELSE rest

TestResultOf(label, status, duration) ==
  [suite    |-> SuiteOf(label),
   name     |-> NameOf(label),
   status   |-> status,
   duration |-> duration,
   error    |-> IF status = "failed" THEN genericError ELSE "none"]

NoStats == [passed |-> 0, failed |-> 0, total |-> 0, tests |-> <<>>]

\* a loop body that counts a skipped line as a passed one
ParseLineSkipAsPassed(acc, line) ==
  LET trimmed == Trim(line)
  IN  IF StartsWith(trimmed, passMarker) \/ StartsWith(trimmed, skipMarker)
      THEN [acc EXCEPT !.passed = @ + 1, !.total = @ + 1]
      ELSE IF StartsWith(trimmed, failMarker)
      THEN [acc EXCEPT !.failed = @ + 1, !.total = @ + 1]
      ELSE acc

\* One iteration of the `for (const line of lines)` loop on the counters and
\* on the testResults array.
ParseLine(acc, line) ==
  LET trimmed == Trim(line)
  IN  IF StartsWith(trimmed, passMarker)
      THEN LET match == MatchTimed(trimmed, passMarker)
           IN  [passed |-> acc.passed + 1,
                failed |-> acc.failed,
                total  |-> acc.total + 1,
                tests  |-> IF match.matched
                           THEN Append(acc.tests,
                                  TestResultOf(match.label, "passed", ParseInt(match.digits)))
                           ELSE acc.tests]
      ELSE IF StartsWith(trimmed, failMarker)
      THEN LET match == MatchTimed(trimmed, failMarker)
           IN  [passed |-> acc.passed,
                failed |-> acc.failed + 1,
                total  |-> acc.total + 1,
                tests  |-> IF match.matched
                           THEN Append(acc.tests,
                                  TestResultOf(match.label, "failed", ParseInt(match.digits)))
                           ELSE acc.tests]
      ELSE IF StartsWith(trimmed, skipMarker)
      THEN LET match == MatchSkipped(trimmed)
           IN  [passed |-> acc.passed,
                failed |-> acc.failed,
                total  |-> acc.total + 1,
                tests  |-> IF match.matched
                           THEN Append(acc.tests, TestResultOf(match.label, "skipped", 0))
                           ELSE acc.tests]
      ELSE acc

RECURSIVE ParseLines(_, _)
ParseLines(acc, lines) ==
  IF lines = <<>> THEN acc
  ELSE ParseLines(ParseLine(acc, Head(lines)), Tail(lines))

parseAndUpdateTestCounts(output) == ParseLines(NoStats, Split(output, NL))

\* a call of the parser: the text it was given, the lines it was split into,
\* the number of lines the loop has been through and the counters and the
\* testResults array so far
NoParse == [pc |-> "idle", output |-> <<>>, lines |-> <<>>, i |-> 0, stats |-> NoStats]

(***************************************************************************)
(* Bounds and inputs                                                       *)
(***************************************************************************)
\* the clock (Date.now()) runs from 0 to MaxTime
MaxTime == 1

\* the store fails at most MaxFaults statements in one behaviour
MaxFaults == 3

\* runTestSuite invocations (POST /api/test-status/run requests), in the
\* order in which they arrive
Executors == {"e1", "e2"}

\* the test files the project under test may have: two in categories, one
\* outside every category
Discoverable ==
  { <<"tests", "integration", "a.test.ts">>,
    <<"tests", "e2e", "e.test.tsx">>,
    <<"tests", "unit", "u.test.ts">> }

\* what one `npx vitest run <pattern> --reporter=verbose` can give back:
\* the exit code and the text on stdout and on stderr
ToolRuns ==
  { [exit |-> 0, stderr |-> <<>>,
     stdout |-> <<passMarker, " ", "a", " ", ">", " ", "b", " ", "5", "m", "s", NL,
                  passMarker, " ", "a", NL, "x">>],
    [exit |-> 1, stderr |-> <<"x">>,
     stdout |-> <<failMarker, " ", "a", " ", "3", "m", "s", NL, " ", skipMarker, " ", "b">>],
    [exit |-> 1, stderr |-> <<"x", NL>>,
     stdout |-> <<>>] }

(***************************************************************************)
(* The store: rows of the test-runs table and of the test-cases table      *)
(***************************************************************************)
Null == <<>>

Some(x) == <<x>>

ValueOf(o) == o[1]

Terminal == {"passed", "failed"}

\* UPDATE testRuns SET <vals> WHERE id = <id>
UpdateRow(runs, id, vals) ==
  [k \in DOMAIN runs |->
     IF k = id
     THEN [f \in DOMAIN runs[k] |-> IF f \in DOMAIN vals THEN vals[f] ELSE runs[k][f]]
     ELSE runs[k]]

(***************************************************************************)
(* TestRunner.  A call in progress is a frame: the statement it awaits     *)
(* (pc), the values captured when the statement was built (id, vals), the  *)
(* retry index i, and what the call has logged and waited so far.  The     *)
(* field testRunId holds 0 for the falsy values null and 0 of              *)
(* `!this.testRunId`; the store numbers its rows from 1.                   *)
(***************************************************************************)
attempts == 3

backoffUnit == 1000

NoCall ==
  [op |-> "none", pc |-> "returned", i |-> 0, id |-> 0, vals |-> <<>>,
   tests |-> <<>>, warns |-> 0, waited |-> 0, writes |-> 0]

NewRunner == [testRunId |-> 0, startTime |-> 0]

\* an insert that puts the file count into the test counter
StartValuesCounting(commitHash, branch, totalFiles, t) ==
  [commitHash     |-> commitHash,
   branch         |-> branch,
   status         |-> "running",
   startedAt      |-> t,
   totalFiles     |-> 0,
   completedFiles |-> 0,
   currentFile    |-> Null,
   currentPhase   |-> Some("backend"),
   totalTests     |-> totalFiles,
   passedTests    |-> 0,
   failedTests    |-> 0,
   duration       |-> Null,
   completedAt    |-> Null,
   errorSummary   |-> Null]

\* startTestRun up to its await: this.startTime = Date.now() and the insert
StartValues(commitHash, branch, totalFiles, t) ==
  [commitHash     |-> commitHash,
   branch         |-> branch,
   status         |-> "running",
   startedAt      |-> t,
   totalFiles     |-> totalFiles,
   completedFiles |-> 0,
   currentFile    |-> Null,
   currentPhase   |-> Some("backend"),
   totalTests     |-> 0,
   passedTests    |-> 0,
   failedTests    |-> 0,
   duration       |-> Null,
   completedAt    |-> Null,
   errorSummary   |-> Null]

CallStartTestRun(commitHash, branch, totalFiles, t) ==
  [NoCall EXCEPT !.op = "startTestRun", !.pc = "insert",
                 !.vals = StartValues(commitHash, branch, totalFiles, t)]


\* the retried update without the guard on this.testRunId
CallRetriedUnguarded(rn, op, vals) ==
  [NoCall EXCEPT !.op = op, !.pc = "update", !.id = rn.testRunId, !.vals = vals]

\* the retried update of updateFileProgress / updateTestCounts: the guard on
\* this.testRunId, then the first attempt
CallRetried(rn, op, vals) ==
  IF rn.testRunId = 0
  THEN [NoCall EXCEPT !.op = op, !.warns = 1]
  ELSE [NoCall EXCEPT !.op = op, !.pc = "update", !.id = rn.testRunId, !.vals = vals]

CallUpdateFileProgress(rn, currentFile, completedFiles, currentPhase, totalFiles) ==
  CallRetried(rn, "updateFileProgress",
              [currentFile    |-> Some(currentFile),
               completedFiles |-> completedFiles,
               currentPhase   |-> Some(currentPhase),
               totalFiles     |-> totalFiles])


\* updateTestCounts with its last two arguments taken in the wrong order
CallUpdateTestCountsSwapped(rn, passedTests, failedTests, totalTests) ==
  CallRetried(rn, "updateTestCounts",
              [totalTests  |-> failedTests,
               passedTests |-> passedTests,
               failedTests |-> totalTests])

CallUpdateTestCounts(rn, passedTests, failedTests, totalTests) ==
  CallRetried(rn, "updateTestCounts",
              [totalTests  |-> totalTests,
               passedTests |-> passedTests,
               failedTests |-> failedTests])


\* a retry loop that rethrows the error of the last attempt
RetriedReplyThrowing(f, ok) ==
  IF ok
  THEN [f EXCEPT !.pc = "returned", !.writes = @ + 1]
  ELSE IF f.i = attempts - 1
  THEN [f EXCEPT !.pc = "threw", !.warns = @ + 1]
  ELSE [f EXCEPT !.pc = "backoff", !.warns = @ + 1]

\* the answer of the store to one attempt: return on success; on failure warn
\* and wait 1000 * (i + 1) ms, or warn and fall out of the loop on the last
RetriedReply(f, ok) ==
  IF ok
  THEN [f EXCEPT !.pc = "returned", !.writes = @ + 1]
  ELSE IF f.i = attempts - 1
  THEN [f EXCEPT !.pc = "returned", !.warns = @ + 1]
  ELSE [f EXCEPT !.pc = "backoff", !.warns = @ + 1]


\* a retry loop that waits a flat 1000 ms before every retry
RetriedWakeFlat(f, rn) ==
  [f EXCEPT !.pc = "update", !.i = @ + 1, !.id = rn.testRunId,
            !.waited = @ + backoffUnit]

\* the setTimeout of the retry loop fires: next iteration, next attempt
RetriedWake(f, rn) ==
  [f EXCEPT !.pc = "update", !.i = @ + 1, !.id = rn.testRunId,
            !.waited = @ + backoffUnit * (f.i + 1)]

\* completeTestRun up to its first await.  A set() entry that is undefined
\* (errorSummary of a passed result) names no column.
CompleteValues(rn, result, t) ==
  LET base == [status      |-> result.status,
               totalTests  |-> result.totalTests,
               passedTests |-> result.passedTests,
               failedTests |-> result.failedTests,
               duration    |-> Some(t - rn.startTime),
               completedAt |-> Some(t)]
  IN  IF result.errorSummary = Null
      THEN base
      ELSE [f \in DOMAIN base \cup {"errorSummary"} |->
              IF f = "errorSummary" THEN result.errorSummary ELSE base[f]]

CallCompleteTestRun(rn, result, t) ==
  IF rn.testRunId = 0
  THEN [NoCall EXCEPT !.op = "completeTestRun", !.warns = 1]
  ELSE [NoCall EXCEPT !.op = "completeTestRun", !.pc = "update",
                      !.id = rn.testRunId, !.vals = CompleteValues(rn, result, t),
                      !.tests = result.tests]

\* a completeTestRun whose bulk insert is made whatever the update's outcome
CompleteReplyInsertingAnyway(f, ok, rn) ==
  IF Len(f.tests) > 0
  THEN [f EXCEPT !.pc = "insertCases", !.id = rn.testRunId,
                 !.writes = IF ok THEN @ + 1 ELSE @,
                 !.warns = IF ok THEN @ ELSE @ + 1]
  ELSE IF ok
  THEN [f EXCEPT !.pc = "returned", !.writes = @ + 1]
  ELSE [f EXCEPT !.pc = "returned", !.warns = @ + 1]

\* the answer to the terminal update: on success go on to the bulk insert of
\* the test cases (for the run that is active now) when there are any
CompleteReply(f, ok, rn) ==
  IF ok /\ Len(f.tests) > 0
  THEN [f EXCEPT !.pc = "insertCases", !.id = rn.testRunId, !.writes = @ + 1]
  ELSE IF ok
  THEN [f EXCEPT !.pc = "returned", !.writes = @ + 1]
  ELSE [f EXCEPT !.pc = "returned", !.warns = @ + 1]

CaseRows(id, tests) ==
  [k \in 1..Len(tests) |->
     [testRunId    |-> id,
      testSuite    |-> tests[k].suite,
      testName     |-> tests[k].name,
      status       |-> tests[k].status,
      duration     |-> tests[k].duration,
      errorMessage |-> tests[k].error]]

\* a bulk insert whose failure is raised to the caller
CasesReplyThrowing(f, ok) ==
  IF ok
  THEN [f EXCEPT !.pc = "returned", !.writes = @ + 1]
  ELSE [f EXCEPT !.pc = "threw", !.warns = @ + 1]

\* the answer of the store to the bulk insert: on failure the error is logged
CasesReply(f, ok) ==
  IF ok
  THEN [f EXCEPT !.pc = "returned", !.writes = @ + 1]
  ELSE [f EXCEPT !.pc = "returned", !.warns = @ + 1]

(***************************************************************************)
(* runTestSuite: one record per invocation.  The code between two awaits   *)
(* runs without interruption (one event-loop turn), so each action is the  *)
(* answer to the awaited statement or timeout followed by everything the   *)
(* continuation does up to the next await.                                 *)
(***************************************************************************)
testCategories ==
  << [pattern |-> <<"tests", "integration">>, phase |-> "backend",  name |-> "Integration Tests"],
     [pattern |-> <<"tests", "auth">>,        phase |-> "backend",  name |-> "Authentication Tests"],
     [pattern |-> <<"tests", "storage">>,     phase |-> "backend",  name |-> "Storage Tests"],
     [pattern |-> <<"tests", "api">>,         phase |-> "backend",  name |-> "API Tests"],
     [pattern |-> <<"tests", "components">>,  phase |-> "frontend", name |-> "Component Tests"],
     [pattern |-> <<"tests", "pages">>,       phase |-> "frontend", name |-> "Page Tests"],
     [pattern |-> <<"tests", "e2e">>,         phase |-> "frontend", name |-> "End-to-End Tests"] >>


\* file.startsWith(category.pattern): a pattern ends in "/", so the file lies
\* strictly below the directory the pattern names
PathStartsWith(file, pattern) ==
  /\ Len(file) > Len(pattern)
  /\ SubSeq(file, 1, Len(pattern)) = pattern

CategoryFiles(allTestFiles, k) ==
  {file \in allTestFiles : PathStartsWith(file, testCategories[k].pattern)}

NewExec ==
  [pc             |-> "idle",
   call           |-> NoCall,
   allTestFiles   |-> {},
   totalFiles     |-> 0,
   testRunId      |-> 0,
   durationUpdateInterval |-> FALSE,
   totalPassed    |-> 0,
   totalFailed    |-> 0,
   totalTests     |-> 0,
   allTestResults |-> <<>>,
   completedFiles |-> 0,
   category       |-> 0,
   exit           |-> 0,
   outcome        |-> "none",
   progressArgs   |-> <<>>,
   completeCalls  |-> 0,
   completeArgs   |-> <<>>,
   finalizeFailed |-> FALSE]

\* an exit that leaves the interval running
FinishLeaking(x, outcome) ==
  [x EXCEPT !.pc = "done", !.call = NoCall, !.outcome = outcome]

\* the `finally` block and the end of the invocation
Finish(x, outcome) ==
  [x EXCEPT !.pc = "done", !.call = NoCall, !.outcome = outcome,
            !.durationUpdateInterval = FALSE]

\* a `catch` that only rethrows
CatchRethrowing(x, rn, t, message) == Finish(x, "threw")

\* the outer `catch`: completeTestRun(errorResult), then `throw error`
Catch(x, rn, t, message) ==
  LET errorResult == [status       |-> "failed",
                      totalTests   |-> 0,
                      passedTests  |-> 0,
                      failedTests  |-> 0,
                      tests        |-> <<>>,
                      errorSummary |-> Some([text |-> "Test execution failed: ", n |-> 0,
                                             message |-> message])]
      call == CallCompleteTestRun(rn, errorResult, t)
      y    == [x EXCEPT !.completeCalls = @ + 1,
                        !.completeArgs = Append(@, errorResult)]
  IN  IF call.pc = "returned"
      THEN Finish(y, "threw")
      ELSE [y EXCEPT !.pc = "completeErr", !.call = call]

\* a final result whose errorSummary is built whatever the failed count is
FinalizeAlwaysSummarizing(x, rn, t) ==
  LET finalResult == [status       |-> IF x.totalFailed = 0 THEN "passed" ELSE "failed",
                      totalTests   |-> x.totalTests,
                      passedTests  |-> x.totalPassed,
                      failedTests  |-> x.totalFailed,
                      tests        |-> x.allTestResults,
                      errorSummary |-> Some([text |-> " test(s) failed",
                                             n |-> x.totalFailed, message |-> ""])]
  IN  [x EXCEPT !.pc = "complete", !.completeCalls = @ + 1,
                !.completeArgs = Append(@, finalResult),
                !.call = CallCompleteTestRun(rn, finalResult, t)]

\* after the loop: finalResult and completeTestRun(finalResult)
Finalize(x, rn, t) ==
  LET finalResult == [status       |-> IF x.totalFailed = 0 THEN "passed" ELSE "failed",
                      totalTests   |-> x.totalTests,
                      passedTests  |-> x.totalPassed,
                      failedTests  |-> x.totalFailed,
                      tests        |-> x.allTestResults,
                      errorSummary |-> IF x.totalFailed > 0
                                       THEN Some([text |-> " test(s) failed",
                                                  n |-> x.totalFailed, message |-> ""])
                                       ELSE Null]
  IN  [x EXCEPT !.pc = "complete", !.completeCalls = @ + 1,
                !.completeArgs = Append(@, finalResult),
                !.call = CallCompleteTestRun(rn, finalResult, t)]

\* a loop head that takes the categories from the end of the list
EnterLoopReversed(x, rn, t, from) ==
  LET todo == {k \in from..Len(testCategories) : CategoryFiles(x.allTestFiles, k) # {}}
  IN  IF todo = {}
      THEN Finalize(x, rn, t)
      ELSE LET k == CHOOSE j \in todo : \A h \in todo : j >= h
           IN  [x EXCEPT !.pc = "progressBefore", !.category = k,
                         !.progressArgs = Append(@, x.completedFiles),
                         !.call = CallUpdateFileProgress(rn, <<testCategories[k].name>>,
                                    x.completedFiles, testCategories[k].phase, x.totalFiles)]

\* a loop head that enters every category, with or without files
EnterLoopEntering(x, rn, t, from) ==
  IF from > Len(testCategories)
  THEN Finalize(x, rn, t)
  ELSE [x EXCEPT !.pc = "progressBefore", !.category = from,
                 !.progressArgs = Append(@, x.completedFiles),
                 !.call = CallUpdateFileProgress(rn, <<testCategories[from].name>>,
                            x.completedFiles, testCategories[from].phase, x.totalFiles)]

\* the head of the category loop from category `from` on: categories without
\* files are skipped, the first one with files reports its progress
EnterLoop(x, rn, t, from) ==
  LET todo == {k \in from..Len(testCategories) : CategoryFiles(x.allTestFiles, k) # {}}
  IN  IF todo = {}
      THEN Finalize(x, rn, t)
      ELSE LET k == CHOOSE j \in todo : \A h \in todo : j <= h
           IN  [x EXCEPT !.pc = "progressBefore", !.category = k,
                         !.progressArgs = Append(@, x.completedFiles),
                         !.call = CallUpdateFileProgress(rn, <<testCategories[k].name>>,
                                    x.completedFiles, testCategories[k].phase, x.totalFiles)]

\* the text that is parsed: vitestOutput, or error.stdout || error.stderr || ''
ToolOutput(run) ==
  IF run.exit = 0 \/ run.stdout # <<>> THEN run.stdout ELSE run.stderr


\* RunCategory with `=` where the code has `+=` on the running totals
RunCategoryAssigning(x, rn, run) ==
  LET categoryStats == parseAndUpdateTestCounts(ToolOutput(run))
  IN  [x EXCEPT !.pc = "counts", !.exit = run.exit,
                !.totalPassed = categoryStats.passed,
                !.totalFailed = categoryStats.failed,
                !.totalTests = categoryStats.total,
                !.allTestResults = @ \o categoryStats.tests,
                !.completedFiles = @ + Cardinality(CategoryFiles(x.allTestFiles, x.category)),
                !.call = CallUpdateTestCounts(rn, categoryStats.passed,
                                              categoryStats.failed, categoryStats.total)]

\* RunCategory with completedFiles advanced by one for the category
RunCategoryCountingOne(x, rn, run) ==
  LET categoryStats == parseAndUpdateTestCounts(ToolOutput(run))
      passed == x.totalPassed + categoryStats.passed
      failed == x.totalFailed + categoryStats.failed
      total  == x.totalTests + categoryStats.total
  IN  [x EXCEPT !.pc = "counts", !.exit = run.exit,
                !.totalPassed = passed, !.totalFailed = failed, !.totalTests = total,
                !.allTestResults = @ \o categoryStats.tests,
                !.completedFiles = @ + 1,
                !.call = CallUpdateTestCounts(rn, passed, failed, total)]

\* RunCategory with allTestFiles.length added to completedFiles where the
\* code adds categoryFiles.length
RunCategoryCountingAll(x, rn, run) ==
  LET categoryStats == parseAndUpdateTestCounts(ToolOutput(run))
      passed == x.totalPassed + categoryStats.passed
      failed == x.totalFailed + categoryStats.failed
      total  == x.totalTests + categoryStats.total
  IN  [x EXCEPT !.pc = "counts", !.exit = run.exit,
                !.totalPassed = passed, !.totalFailed = failed, !.totalTests = total,
                !.allTestResults = @ \o categoryStats.tests,
                !.completedFiles = @ + Cardinality(x.allTestFiles),
                !.call = CallUpdateTestCounts(rn, passed, failed, total)]

\* RunCategory with a catch block that does not parse what the failed tool
\* printed
RunCategoryDroppingFailed(x, rn, run) ==
  LET categoryStats == IF run.exit = 0
                       THEN parseAndUpdateTestCounts(ToolOutput(run))
                       ELSE NoStats
      passed == x.totalPassed + categoryStats.passed
      failed == x.totalFailed + categoryStats.failed
      total  == x.totalTests + categoryStats.total
  IN  [x EXCEPT !.pc = "counts", !.exit = run.exit,
                !.totalPassed = passed, !.totalFailed = failed, !.totalTests = total,
                !.allTestResults = @ \o categoryStats.tests,
                !.completedFiles = @ + Cardinality(CategoryFiles(x.allTestFiles, x.category)),
                !.call = CallUpdateTestCounts(rn, passed, failed, total)]

\* execSync of the tool for the category, the parse of what it printed (of
\* error.stdout || error.stderr || '' when it exited non-zero), the running
\* totals and updateTestCounts
RunCategory(x, rn, run) ==
  LET categoryStats == parseAndUpdateTestCounts(ToolOutput(run))
      passed == x.totalPassed + categoryStats.passed
      failed == x.totalFailed + categoryStats.failed
      total  == x.totalTests + categoryStats.total
  IN  [x EXCEPT !.pc = "counts", !.exit = run.exit,
                !.totalPassed = passed, !.totalFailed = failed, !.totalTests = total,
                !.allTestResults = @ \o categoryStats.tests,
                !.completedFiles = @ + Cardinality(CategoryFiles(x.allTestFiles, x.category)),
                !.call = CallUpdateTestCounts(rn, passed, failed, total)]

\* the second updateFileProgress of a category
ReportCompleted(x, rn) ==
  LET name  == testCategories[x.category].name
      label == IF x.exit = 0 THEN <<"Completed ", name>>
               ELSE <<"Completed ", name, " (with errors)">>
  IN  [x EXCEPT !.pc = "progressAfter",
                !.progressArgs = Append(@, x.completedFiles),
                !.call = CallUpdateFileProgress(rn, label, x.completedFiles,
                           testCategories[x.category].phase, x.totalFiles)]

(***************************************************************************)
(* Actions of runTestSuite                                                 *)
(***************************************************************************)
\* the store answers a statement: success, or failure while it has faults left
Answers == IF faults < MaxFaults THEN {TRUE, FALSE} ELSE {TRUE}

Fault(ok) == faults' = IF ok THEN faults ELSE faults + 1

StoreUpdate(f, ok) == IF ok THEN UpdateRow(testRuns, f.id, f.vals) ELSE testRuns

\* the invocation up to its first await: file discovery (which may throw),
\* then startTestRun
Invoke(e) ==
  /\ exec[e].pc = "idle"
  /\ e = "e2" => exec["e1"].pc # "idle"
  /\ \/ LET files == project.files
        IN
          /\ exec' = [exec EXCEPT ![e] =
                        [@ EXCEPT !.pc = "start",
                                  !.allTestFiles = files,
                                  !.totalFiles = Cardinality(files),
                                  !.call = CallStartTestRun("HEAD", "main",
                                             Cardinality(files), now)]]
          /\ runner' = [runner EXCEPT !.startTime = now]
     \/ /\ exec' = [exec EXCEPT ![e] = Catch(@, runner, now, "Command failed: find")]
        /\ UNCHANGED runner
  /\ UNCHANGED <<project, parse, testRuns, testCases, timer, now, faults, api>>

\* the insert of startTestRun is answered: the new row's id becomes the
\* runner's testRunId, the interval is set and the loop is entered
StartAnswer(e) ==
  /\ exec[e].pc = "start"
  /\ \E ok \in Answers :
       /\ Fault(ok)
       /\ IF ok
          THEN LET id == Len(testRuns) + 1
                   rn == [runner EXCEPT !.testRunId = id]
               IN  /\ testRuns' = Append(testRuns, exec[e].call.vals)
                   /\ runner' = rn
                   /\ exec' = [exec EXCEPT ![e] =
                                 EnterLoop([@ EXCEPT !.testRunId = id,
                                                     !.durationUpdateInterval = TRUE],
                                           rn, now, 1)]
          ELSE /\ exec' = [exec EXCEPT ![e] = Catch(@, runner, now, "insert failed")]
               /\ UNCHANGED <<testRuns, runner>>
  /\ UNCHANGED <<project, parse, testCases, timer, now, api>>

\* an attempt of the first updateFileProgress of a category is answered
ProgressBeforeAnswer(e) ==
  /\ exec[e].pc = "progressBefore"
  /\ exec[e].call.pc = "update"
  /\ \E ok \in Answers :
       LET f == RetriedReply(exec[e].call, ok)
       IN  /\ Fault(ok)
           /\ testRuns' = StoreUpdate(exec[e].call, ok)
           /\ IF f.pc = "returned"
              THEN exec' = [exec EXCEPT ![e] =
                              RunCategory(@, runner, project.tool[@.category])]
              ELSE exec' = [exec EXCEPT ![e].call = f]
  /\ UNCHANGED <<project, parse, testCases, runner, timer, now, api>>

\* an attempt of updateTestCounts is answered
CountsAnswer(e) ==
  /\ exec[e].pc = "counts"
  /\ exec[e].call.pc = "update"
  /\ \E ok \in Answers :
       LET f == RetriedReply(exec[e].call, ok)
       IN  /\ Fault(ok)
           /\ testRuns' = StoreUpdate(exec[e].call, ok)
           /\ IF f.pc = "returned"
              THEN exec' = [exec EXCEPT ![e] = ReportCompleted(@, runner)]
              ELSE exec' = [exec EXCEPT ![e].call = f]
  /\ UNCHANGED <<project, parse, testCases, runner, timer, now, api>>

\* an attempt of the second updateFileProgress is answered; after the call
\* the loop body ends in the 500 ms pause
ProgressAfterAnswer(e) ==
  /\ exec[e].pc = "progressAfter"
  /\ exec[e].call.pc = "update"
  /\ \E ok \in Answers :
       LET f == RetriedReply(exec[e].call, ok)
       IN  /\ Fault(ok)
           /\ testRuns' = StoreUpdate(exec[e].call, ok)
           /\ IF f.pc = "returned"
              THEN exec' = [exec EXCEPT ![e] = [@ EXCEPT !.pc = "pause", !.call = NoCall]]
              ELSE exec' = [exec EXCEPT ![e].call = f]
  /\ UNCHANGED <<project, parse, testCases, runner, timer, now, api>>

\* the backoff timeout of a retry loop fires
RetryWake(e) ==
  /\ exec[e].call.pc = "backoff"
  /\ exec' = [exec EXCEPT ![e].call = RetriedWake(@, runner)]
  /\ UNCHANGED <<project, parse, testRuns, testCases, runner, timer, now, faults, api>>

\* the pause between categories ends
PauseWake(e) ==
  /\ exec[e].pc = "pause"
  /\ exec' = [exec EXCEPT ![e] = EnterLoop(@, runner, now, @.category + 1)]
  /\ UNCHANGED <<project, parse, testRuns, testCases, runner, timer, now, faults, api>>

\* the terminal update of completeTestRun is answered
CompleteAnswer(e) ==
  /\ exec[e].pc \in {"complete", "completeErr"}
  /\ exec[e].call.pc = "update"
  /\ \E ok \in Answers :
       LET f == CompleteReply(exec[e].call, ok, runner)
       IN  /\ Fault(ok)
           /\ testRuns' = StoreUpdate(exec[e].call, ok)
           /\ IF f.pc = "returned"
              THEN exec' = [exec EXCEPT ![e] =
                              Finish([@ EXCEPT !.finalizeFailed = ~ok],
                                     IF @.pc = "complete" THEN "returned" ELSE "threw")]
              ELSE exec' = [exec EXCEPT ![e].call = f]
  /\ UNCHANGED <<project, parse, testCases, runner, timer, now, api>>

\* the bulk insert of the test cases is answered
CasesAnswer(e) ==
  /\ exec[e].pc \in {"complete", "completeErr"}
  /\ exec[e].call.pc = "insertCases"
  /\ \E ok \in Answers :
       /\ Fault(ok)
       /\ testCases' = IF ok
                       THEN testCases \o CaseRows(exec[e].call.id, exec[e].call.tests)
                       ELSE testCases
       /\ exec' = [exec EXCEPT ![e] =
                     Finish(@, IF @.pc = "complete" THEN "returned" ELSE "threw")]
  /\ UNCHANGED <<project, parse, testRuns, runner, timer, now, api>>

(***************************************************************************)
(* The setInterval callback: updateRunningDuration(testRunId)              *)
(***************************************************************************)
IdleTimer == [pc |-> "idle", duration |-> 0]

TimerFire(e) ==
  /\ exec[e].durationUpdateInterval
  /\ timer[e].pc = "idle"
  /\ timer' = [timer EXCEPT ![e].pc = "select"]
  /\ UNCHANGED <<project, parse, testRuns, testCases, runner, exec, now, faults, api>>

\* the select of startedAt is answered: duration = Date.now() - startedAt
TimerSelectAnswer(e) ==
  /\ timer[e].pc = "select"
  /\ \E ok \in Answers :
       /\ Fault(ok)
       /\ IF ok /\ exec[e].testRunId \in DOMAIN testRuns
          THEN timer' = [timer EXCEPT ![e] =
                           [pc |-> "update",
                            duration |-> now - testRuns[exec[e].testRunId].startedAt]]
          ELSE timer' = [timer EXCEPT ![e] = IdleTimer]
  /\ UNCHANGED <<project, parse, testRuns, testCases, runner, exec, now, api>>

TimerUpdateAnswer(e) ==
  /\ timer[e].pc = "update"
  /\ \E ok \in Answers :
       /\ Fault(ok)
       /\ testRuns' = IF ok
                      THEN UpdateRow(testRuns, exec[e].testRunId,
                                     [duration |-> Some(timer[e].duration)])
                      ELSE testRuns
  /\ timer' = [timer EXCEPT ![e] = IdleTimer]
  /\ UNCHANGED <<project, parse, testCases, runner, exec, now, api>>

Tick ==
  /\ now < MaxTime
  /\ now' = now + 1
  /\ UNCHANGED <<project, parse, testRuns, testCases, runner, exec, timer, faults, api>>

\* the project under test: its test files and what the tool prints for each
\* category that has files
Projects ==
  {p \in [files : SUBSET Discoverable, tool : [1..Len(testCategories) -> ToolRuns]] :
     \A k \in 1..Len(testCategories) :
       CategoryFiles(p.files, k) = {} => p.tool[k] = CHOOSE r \in ToolRuns : r.exit = 0}

Init ==
  /\ project \in Projects
  /\ testRuns = <<>>
  /\ testCases = <<>>
  /\ runner = NewRunner
  /\ exec = [e \in Executors |-> NewExec]
  /\ timer = [e \in Executors |-> IdleTimer]
  /\ now = 0
  /\ faults = 0
  /\ api = [call |-> NoCall, calls |-> 0]
  /\ parse = NoParse

Next ==
  \/ \E e \in Executors : Invoke(e)
  \/ \E e \in Executors : StartAnswer(e)
  \/ \E e \in Executors : ProgressBeforeAnswer(e)
  \/ \E e \in Executors : CountsAnswer(e)
  \/ \E e \in Executors : ProgressAfterAnswer(e)
  \/ \E e \in Executors : RetryWake(e)
  \/ \E e \in Executors : PauseWake(e)
  \/ \E e \in Executors : CompleteAnswer(e)
  \/ \E e \in Executors : CasesAnswer(e)

\* Two invocations of runTestSuite on one TestRunner, overlapping in any way,
\* within one reading of the clock and before the interval first fires.
Spec == Init /\ [][Next]_vars

\* a request that arrives when the one before it has been answered
InvokeNext(e) ==
  /\ \A o \in Executors \ {e} : exec[o].pc = "done"
  /\ Invoke(e)

NextSequential ==
  \/ Invoke("e1")
  \/ InvokeNext("e2")
  \/ \E e \in Executors : StartAnswer(e)
  \/ \E e \in Executors : ProgressBeforeAnswer(e)
  \/ \E e \in Executors : CountsAnswer(e)
  \/ \E e \in Executors : ProgressAfterAnswer(e)
  \/ \E e \in Executors : RetryWake(e)
  \/ \E e \in Executors : PauseWake(e)
  \/ \E e \in Executors : CompleteAnswer(e)
  \/ \E e \in Executors : CasesAnswer(e)

\* Two invocations of runTestSuite on one TestRunner, the second after the
\* first has ended.
SpecSequential == Init /\ [][NextSequential]_vars

\* One invocation with its interval timer and a running clock.
NextTimer ==
  \/ Invoke("e1")
  \/ StartAnswer("e1")
  \/ ProgressBeforeAnswer("e1")
  \/ CountsAnswer("e1")
  \/ ProgressAfterAnswer("e1")
  \/ RetryWake("e1")
  \/ PauseWake("e1")
  \/ CompleteAnswer("e1")
  \/ CasesAnswer("e1")
  \/ TimerFire("e1")
  \/ TimerSelectAnswer("e1")
  \/ TimerUpdateAnswer("e1")
  \/ Tick

SpecTimer == Init /\ [][NextTimer]_vars

\* A project with three files in the first category, none in the second and
\* one in the last; the tool prints two pass lines for the first and exits
\* non-zero with one fail line for the last.
EndToEndProject ==
  [files |-> { <<"tests", "integration", "a.test.ts">>,
               <<"tests", "integration", "b.test.ts">>,
               <<"tests", "integration", "c.test.ts">>,
               <<"tests", "e2e", "e.test.tsx">> },
   tool  |-> [k \in 1..Len(testCategories) |->
                IF k = Len(testCategories)
                THEN [exit |-> 1, stderr |-> <<"x">>,
                      stdout |-> <<failMarker, " ", "a", " ", "3", "m", "s">>]
                ELSE CHOOSE r \in ToolRuns : r.exit = 0]]

InitEndToEnd ==
  /\ project \in Projects \cup {EndToEndProject}
  /\ testRuns = <<>>
  /\ testCases = <<>>
  /\ runner = NewRunner
  /\ exec = [e \in Executors |-> NewExec]
  /\ timer = [e \in Executors |-> IdleTimer]
  /\ now = 0
  /\ faults = 0
  /\ api = [call |-> NoCall, calls |-> 0]
  /\ parse = NoParse

\* One invocation, with its timer, over the projects above and that one.
SpecEndToEnd == InitEndToEnd /\ [][NextTimer]_vars

(***************************************************************************)
(* A client that calls the TestRunner's methods itself, one call at a      *)
(* time, in any order and with arguments from small sets.                  *)
(***************************************************************************)
\* the client makes at most MaxCalls calls
MaxCalls == 4

ApiIdle == api.call.pc \in {"returned", "threw"} /\ api.calls < MaxCalls

ApiResults ==
  { [status |-> "passed", totalTests |-> 1, passedTests |-> 1, failedTests |-> 0,
     tests |-> <<TestResultOf(<<"a", " ", ">", " ", "b">>, "passed", 5)>>,
     errorSummary |-> Null],
    [status |-> "failed", totalTests |-> 3, passedTests |-> 1, failedTests |-> 1,
     tests |-> <<>>,
     errorSummary |-> Some([text |-> " test(s) failed", n |-> 1, message |-> ""])] }

ApiStartTestRun ==
  /\ ApiIdle
  /\ api' = [call |-> CallStartTestRun("HEAD", "main", 1, now), calls |-> api.calls + 1]
  /\ runner' = [runner EXCEPT !.startTime = now]
  /\ UNCHANGED <<project, parse, testRuns, testCases, exec, timer, now, faults>>

ApiStartAnswer ==
  /\ api.call.pc = "insert"
  /\ \E ok \in Answers :
       /\ Fault(ok)
       /\ IF ok
          THEN /\ testRuns' = Append(testRuns, api.call.vals)
               /\ runner' = [runner EXCEPT !.testRunId = Len(testRuns) + 1]
               /\ api' = [api EXCEPT !.call.pc = "returned", !.call.writes = 1]
          ELSE /\ api' = [api EXCEPT !.call.pc = "threw"]
               /\ UNCHANGED <<testRuns, runner>>
  /\ UNCHANGED <<project, parse, testCases, exec, timer, now>>

ApiUpdateFileProgress ==
  /\ ApiIdle
  /\ \E completedFiles \in {0, 1} :
       api' = [call  |-> CallUpdateFileProgress(runner, <<"a.test.ts">>, completedFiles,
                                                "frontend", 1),
               calls |-> api.calls + 1]
  /\ UNCHANGED <<project, parse, testRuns, testCases, runner, exec, timer, now, faults>>

ApiUpdateTestCounts ==
  /\ ApiIdle
  /\ \E r \in ApiResults :
       api' = [call  |-> CallUpdateTestCounts(runner, r.passedTests, r.failedTests,
                                              r.totalTests),
               calls |-> api.calls + 1]
  /\ UNCHANGED <<project, parse, testRuns, testCases, runner, exec, timer, now, faults>>

ApiRetriedAnswer ==
  /\ api.call.op \in {"updateFileProgress", "updateTestCounts"}
  /\ api.call.pc = "update"
  /\ \E ok \in Answers :
       /\ Fault(ok)
       /\ testRuns' = StoreUpdate(api.call, ok)
       /\ api' = [api EXCEPT !.call = RetriedReply(@, ok)]
  /\ UNCHANGED <<project, parse, testCases, runner, exec, timer, now>>

ApiRetryWake ==
  /\ api.call.pc = "backoff"
  /\ api' = [api EXCEPT !.call = RetriedWake(@, runner)]
  /\ UNCHANGED <<project, parse, testRuns, testCases, runner, exec, timer, now, faults>>

ApiCompleteTestRun ==
  /\ ApiIdle
  /\ \E r \in ApiResults :
       api' = [call |-> CallCompleteTestRun(runner, r, now), calls |-> api.calls + 1]
  /\ UNCHANGED <<project, parse, testRuns, testCases, runner, exec, timer, now, faults>>

ApiCompleteAnswer ==
  /\ api.call.op = "completeTestRun"
  /\ api.call.pc = "update"
  /\ \E ok \in Answers :
       /\ Fault(ok)
       /\ testRuns' = StoreUpdate(api.call, ok)
       /\ api' = [api EXCEPT !.call = CompleteReply(@, ok, runner)]
  /\ UNCHANGED <<project, parse, testCases, runner, exec, timer, now>>

ApiCasesAnswer ==
  /\ api.call.pc = "insertCases"
  /\ \E ok \in Answers :
       /\ Fault(ok)
       /\ testCases' = IF ok
                       THEN testCases \o CaseRows(api.call.id, api.call.tests)
                       ELSE testCases
       /\ api' = [api EXCEPT !.call = CasesReply(@, ok)]
  /\ UNCHANGED <<project, parse, testRuns, runner, exec, timer, now>>

InitApi ==
  /\ project = [files |-> {},
                tool  |-> [k \in 1..Len(testCategories) |->
                             CHOOSE r \in ToolRuns : r.exit = 0]]
  /\ testRuns = <<>>
  /\ testCases = <<>>
  /\ runner = NewRunner
  /\ exec = [e \in Executors |-> NewExec]
  /\ timer = [e \in Executors |-> IdleTimer]
  /\ now = 0
  /\ faults = 0
  /\ api = [call |-> NoCall, calls |-> 0]
  /\ parse = NoParse

NextApi ==
  \/ ApiStartTestRun
  \/ ApiStartAnswer
  \/ ApiUpdateFileProgress
  \/ ApiUpdateTestCounts
  \/ ApiRetriedAnswer
  \/ ApiRetryWake
  \/ ApiCompleteTestRun
  \/ ApiCompleteAnswer
  \/ ApiCasesAnswer
  \/ Tick

SpecApi == InitApi /\ [][NextApi]_vars

(***************************************************************************)
(* GET /api/test-status/deploy-ready                                       *)
(***************************************************************************)
\* SELECT ... ORDER BY id DESC LIMIT 1, destructured: the row with the
\* greatest id, or undefined when the table is empty
(***************************************************************************)
(* parseAndUpdateTestCounts on its own, one line of the loop per step      *)
(***************************************************************************)
\* the lines a tool output is made of: well-formed and malformed marker
\* lines, an indented marker line, lines without a marker at their start
OutputLines ==
  { <<passMarker, " ", "a", " ", ">", " ", "b", " ", "5", "m", "s">>,
    <<passMarker, " ", "a">>,
    <<" ", failMarker, " ", "a", " ", "3", "m", "s">>,
    <<failMarker>>,
    <<skipMarker, " ", "b">>,
    <<"x", " ", passMarker>>,
    <<>> }

MaxLines == 3

RECURSIVE JoinLines(_)
\* the text whose lines are ls
JoinLines(ls) ==
  IF Len(ls) = 0 THEN <<>>
  ELSE IF Len(ls) = 1 THEN ls[1]
  ELSE ls[1] \o <<NL>> \o JoinLines(Tail(ls))

Outputs ==
  {JoinLines(ls) : ls \in UNION {[1..n -> OutputLines] : n \in 1..MaxLines}}

\* output.split('\n') and the three counters at 0
ParseCall ==
  /\ parse.pc = "called"
  /\ parse' = [parse EXCEPT !.pc = "loop", !.lines = Split(parse.output, NL)]
  /\ UNCHANGED <<project, testRuns, testCases, runner, exec, timer, now, faults, api>>

\* one iteration of the loop over the lines
ParseNext ==
  /\ parse.pc = "loop"
  /\ parse.i < Len(parse.lines)
  /\ parse' = [parse EXCEPT !.i = @ + 1,
                            !.stats = ParseLine(@, parse.lines[parse.i + 1])]
  /\ UNCHANGED <<project, testRuns, testCases, runner, exec, timer, now, faults, api>>

\* the return of the three counters
ParseReturn ==
  /\ parse.pc = "loop"
  /\ parse.i = Len(parse.lines)
  /\ parse' = [parse EXCEPT !.pc = "returned"]
  /\ UNCHANGED <<project, testRuns, testCases, runner, exec, timer, now, faults, api>>

InitParse ==
  /\ project = [files |-> {}, tool |-> [k \in 1..Len(testCategories) |->
                                          CHOOSE r \in ToolRuns : r.exit = 0]]
  /\ testRuns = <<>>
  /\ testCases = <<>>
  /\ runner = NewRunner
  /\ exec = [e \in Executors |-> NewExec]
  /\ timer = [e \in Executors |-> IdleTimer]
  /\ now = 0
  /\ faults = 0
  /\ api = [call |-> NoCall, calls |-> 0]
  /\ \E output \in Outputs : parse = [NoParse EXCEPT !.pc = "called", !.output = output]

NextParse == ParseCall \/ ParseNext \/ ParseReturn

\* The parser applied to every text of at most MaxLines lines.
SpecParse == InitParse /\ [][NextParse]_vars

getLatestTestRun(runs) ==
  IF runs = <<>> THEN Null ELSE Some(runs[Len(runs)])

\* `latest && (status === 'passed' || status === 'completed') &&
\* failedTests === 0`: a && chain gives its first falsy operand, so an
\* undefined `latest` gives undefined, which res.json leaves out of the body
DeployReady(runs) ==
  LET latest == getLatestTestRun(runs)
  IN  IF latest = Null
      THEN "undefined"
      ELSE IF /\ ValueOf(latest).status \in {"passed", "completed"}
              /\ ValueOf(latest).failedTests = 0
      THEN "true"
      ELSE "false"

(***************************************************************************)
(* Properties                                                              *)
(***************************************************************************)
Retried == {"updateFileProgress", "updateTestCounts"}

\* executor e takes a step / the store fails the statement answered in it
Steps(e) == exec'[e] # exec[e]

Failed == faults' = faults + 1

\* the number of lines of a tool output that begin with a marker
LinesMarked(output, marker) ==
  LET lines == Split(output, NL)
  IN  Cardinality({j \in 1..Len(lines) : StartsWith(Trim(lines[j]), marker)})

RECURSIVE MarkedUpTo(_, _)
\* ... summed over the categories up to k of the project that have files
MarkedUpTo(marker, k) ==
  IF k = 0 THEN 0
  ELSE MarkedUpTo(marker, k - 1)
       + IF CategoryFiles(project.files, k) = {} THEN 0
         ELSE LinesMarked(ToolOutput(project.tool[k]), marker)

SumPassed == MarkedUpTo(passMarker, Len(testCategories))

SumFailed == MarkedUpTo(failMarker, Len(testCategories))

SumSkipped == MarkedUpTo(skipMarker, Len(testCategories))

SumTotal == SumPassed + SumFailed + SumSkipped

\* the terminal update of the normal path of executor e succeeds in this step
NormalFinalize(e) ==
  /\ exec[e].pc = "complete"
  /\ exec[e].call.pc = "update"
  /\ Steps(e)
  /\ ~Failed

\* C1 (as claimed): a row is 'running' from its insert until a completeTestRun
\* update writes its status, and a status once written as 'passed' or 'failed'
\* is never changed again by any later operation.
C1_TerminalStatusIsFinal ==
  [][\A id \in DOMAIN testRuns' :
       /\ id \notin DOMAIN testRuns => testRuns'[id].status = "running"
       /\ id \in DOMAIN testRuns /\ testRuns[id].status \in Terminal
            => testRuns'[id].status = testRuns[id].status
       /\ id \in DOMAIN testRuns /\ testRuns[id].status # testRuns'[id].status
            => \E e \in Executors :
                 /\ exec[e].call.op = "completeTestRun"
                 /\ exec[e].call.pc = "update"
                 /\ Steps(e)]_vars

\* C2 (as claimed): once every invocation has ended, and no terminal update
\* was failed by the store, every row that startTestRun created has a
\* terminal status.
C2_EveryRunIsFinalized ==
  (/\ \A e \in Executors : exec[e].pc \in {"idle", "done"}
   /\ \A e \in Executors : ~exec[e].finalizeFailed)
  => \A id \in DOMAIN testRuns : testRuns[id].status \in Terminal

\* C3 (amended): the counters that the normal-path completeTestRun persists
\* are totalTests = the sum of the category totals, passedTests = the sum of
\* the category passed counts and failedTests = the sum of the category
\* failed counts, a category's total being its pass, fail and skip lines.
C3_FinalCountersAreSums ==
  [][\A e \in Executors :
       NormalFinalize(e) =>
         /\ testRuns'[exec[e].call.id].totalTests = SumTotal
         /\ testRuns'[exec[e].call.id].passedTests = SumPassed
         /\ testRuns'[exec[e].call.id].failedTests = SumFailed]_vars

\* C3 (as claimed): ... and failedTests = the sum over the categories of
\* (category total - category passed).
C3_FailedIsTotalMinusPassed ==
  [][\A e \in Executors :
       NormalFinalize(e) =>
         /\ testRuns'[exec[e].call.id].totalTests = SumTotal
         /\ testRuns'[exec[e].call.id].passedTests = SumPassed
         /\ testRuns'[exec[e].call.id].failedTests = SumTotal - SumPassed]_vars

\* a run over two categories, one of them with a skipped line, was finalized
C3_Witness ==
  \E e \in Executors : \E id \in DOMAIN testRuns :
    /\ exec[e].pc = "done" /\ exec[e].outcome = "returned"
    /\ Len(exec[e].progressArgs) = 4
    /\ SumSkipped > 0 /\ SumPassed > 0
    /\ testRuns[id].status = "failed"
    /\ testRuns[id].totalTests = SumTotal
    /\ testRuns[id].failedTests = SumFailed

\* C4: in every reachable state passedTests + failedTests <= totalTests holds
\* of every persisted run.
C4_PassedPlusFailedAtMostTotal ==
  \A id \in DOMAIN testRuns :
    testRuns[id].passedTests + testRuns[id].failedTests <= testRuns[id].totalTests

\* a running row whose counts were updated, with passed, failed and skipped
\* tests in them
C4_Witness ==
  \E id \in DOMAIN testRuns :
    /\ testRuns[id].status = "running"
    /\ testRuns[id].passedTests > 0
    /\ testRuns[id].failedTests > 0
    /\ testRuns[id].passedTests + testRuns[id].failedTests < testRuns[id].totalTests

\* C5 (as claimed): the persisted totalTests, passedTests and failedTests of
\* a run never decrease.
C5_CountersNeverDecrease ==
  [][\A id \in DOMAIN testRuns :
       /\ testRuns'[id].totalTests >= testRuns[id].totalTests
       /\ testRuns'[id].passedTests >= testRuns[id].passedTests
       /\ testRuns'[id].failedTests >= testRuns[id].failedTests]_vars

\* C6: the persisted completedFiles is at most the persisted totalFiles.
C6_CompletedAtMostTotalFiles ==
  \A id \in DOMAIN testRuns : testRuns[id].completedFiles <= testRuns[id].totalFiles

\* a progress update was written after the last category of a project that
\* also has a file outside every category
C6_Witness ==
  \E id \in DOMAIN testRuns :
    /\ testRuns[id].completedFiles = 2
    /\ testRuns[id].totalFiles = 3

\* C7 (as claimed): the completedFiles arguments of the successive
\* updateFileProgress calls of a run never decrease, and the persisted
\* completedFiles never decreases.
C7_CompletedFilesNeverDecrease ==
  [][/\ \A e \in Executors :
          \A j \in 1..(Len(exec'[e].progressArgs) - 1) :
            exec'[e].progressArgs[j] <= exec'[e].progressArgs[j + 1]
     /\ \A id \in DOMAIN testRuns :
          testRuns'[id].completedFiles >= testRuns[id].completedFiles]_vars

\* C8: a retried update makes at most 3 attempts, makes none after one that
\* succeeded, has waited 1000 ms times the attempt number after each failed
\* attempt but the third, and after two failures and a success has written
\* the row once, warned twice and waited 3000 ms.
C8_BoundedLinearRetry ==
  api.call.op \in Retried =>
    /\ api.call.i <= attempts - 1
    /\ api.call.writes <= 1
    /\ api.call.pc \in {"update", "backoff"} => api.call.writes = 0
    /\ api.call.waited = (backoffUnit * api.call.i * (api.call.i + 1)) \div 2
    /\ api.call.pc = "returned" /\ api.call.i = 2 /\ api.call.writes = 1
         => api.call.warns = 2 /\ api.call.waited = 3000
    /\ api.call.pc = "returned" /\ api.call.writes = 0 /\ api.call.id # 0
         => api.call.i = attempts - 1 /\ api.call.waited = 3000

\* an update that failed twice and then succeeded
C8_Witness ==
  /\ api.call.op \in Retried
  /\ api.call.pc = "returned"
  /\ api.call.i = 2
  /\ api.call.writes = 1
  /\ \E id \in DOMAIN testRuns : testRuns[id].currentFile # Null

\* C9: when the third attempt of a progress or count update fails, the rows
\* stay as they are and runTestSuite goes on with its next step; an invocation
\* that started a run ends by returning, after one completeTestRun call.
C9_ExhaustedRetriesDoNotAbort ==
  /\ [][\A e \in Executors :
          (/\ exec[e].call.op \in Retried
           /\ exec[e].call.pc = "update"
           /\ exec[e].call.i = attempts - 1
           /\ Steps(e)
           /\ Failed)
          => /\ testRuns' = testRuns
             /\ testCases' = testCases
             /\ exec'[e].outcome = "none"
             /\ exec[e].pc = "progressBefore" => exec'[e].pc = "counts"
             /\ exec[e].pc = "counts" => exec'[e].pc = "progressAfter"
             /\ exec[e].pc = "progressAfter" => exec'[e].pc = "pause"]_vars
  /\ [](\A e \in Executors :
          exec[e].pc = "done" /\ exec[e].testRunId # 0
            => exec[e].outcome = "returned" /\ exec[e].completeCalls = 1)

\* an invocation alone on the runner whose last progress update failed three
\* times (the row still shows the label of the first) and that finalized
C9_Witness ==
  /\ exec["e2"].pc = "idle"
  /\ exec["e1"].pc = "done"
  /\ exec["e1"].outcome = "returned"
  /\ faults = attempts
  /\ Len(exec["e1"].progressArgs) = 2
  /\ Len(testRuns) = 1
  /\ testRuns[1].status \in Terminal
  /\ testRuns[1].currentFile = Some(<<testCategories[exec["e1"].category].name>>)

\* C10: while startTestRun has never succeeded on the runner, a call of
\* updateFileProgress or updateTestCounts has returned at once, having issued
\* no statement, and the store holds no row.
C10_UpdateBeforeStartIsNoOp ==
  runner.testRunId = 0 =>
    /\ testRuns = <<>>
    /\ testCases = <<>>
    /\ api.call.op \in Retried =>
         /\ api.call.pc = "returned"
         /\ api.call.writes = 0
         /\ api.call.i = 0

\* updateTestCounts has returned, as the third call made on a runner whose
\* startTestRun the store had failed
C10_Witness ==
  /\ runner.testRunId = 0
  /\ faults = 1
  /\ api.calls = 3
  /\ api.call.op = "updateTestCounts"
  /\ api.call.pc = "returned"

\* C11 (as claimed): a completeTestRun call made on a run whose terminal
\* record is already written leaves the row (status, counters, duration,
\* completedAt, errorSummary) and the run's test-case rows as they are.
C11_SecondCompleteKeepsRecord ==
  [][/\ (/\ api.call.op = "completeTestRun"
         /\ api.call.pc = "update"
         /\ api.call.id \in DOMAIN testRuns
         /\ testRuns[api.call.id].status \in Terminal)
        => testRuns'[api.call.id] = testRuns[api.call.id]
     /\ (/\ api.call.op = "completeTestRun"
         /\ api.call.pc = "insertCases"
         /\ \E k \in DOMAIN testCases : testCases[k].testRunId = api.call.id)
        => testCases' = testCases]_vars

\* C12: every invocation of runTestSuite calls completeTestRun exactly once:
\* none while the categories are processed, then one call, with the
\* aggregated result when the invocation returns and with the zero-count
\* failed result when it throws.
C12_CompleteCalledExactlyOnce ==
  \A e \in Executors :
    /\ Len(exec[e].completeArgs) = exec[e].completeCalls
    /\ exec[e].completeCalls <= 1
    /\ exec[e].pc \in {"idle", "start", "progressBefore", "counts", "progressAfter", "pause"}
         => exec[e].completeCalls = 0
    /\ exec[e].pc \in {"complete", "completeErr", "done"}
         => exec[e].completeCalls = 1
    /\ exec[e].pc = "complete" \/ (exec[e].pc = "done" /\ exec[e].outcome = "returned")
         => /\ exec[e].completeArgs[1].totalTests = exec[e].totalTests
            /\ exec[e].completeArgs[1].passedTests = exec[e].totalPassed
            /\ exec[e].completeArgs[1].failedTests = exec[e].totalFailed
            /\ exec[e].completeArgs[1].tests = exec[e].allTestResults
    /\ exec[e].pc = "completeErr" \/ (exec[e].pc = "done" /\ exec[e].outcome = "threw")
         => /\ exec[e].completeArgs[1].status = "failed"
            /\ exec[e].completeArgs[1].totalTests = 0
            /\ exec[e].completeArgs[1].passedTests = 0
            /\ exec[e].completeArgs[1].failedTests = 0
            /\ exec[e].completeArgs[1].tests = <<>>

\* one invocation has returned after aggregating tests, another has thrown
C12_Witness ==
  /\ exec["e1"].pc = "done"
  /\ exec["e1"].outcome = "returned"
  /\ exec["e1"].completeArgs[1].totalTests > 0
  /\ exec["e2"].pc = "done"
  /\ exec["e2"].outcome = "threw"
  /\ exec["e2"].completeCalls = 1

\* C13: the interval that runTestSuite sets is cleared on every exit path:
\* an invocation that has returned or thrown holds no live interval, and no
\* updateRunningDuration call is started for its run from then on.
C13_TimerCancelledOnExit ==
  /\ [](\A e \in Executors :
          exec[e].pc \in {"idle", "done"} => ~exec[e].durationUpdateInterval)
  /\ [][\A e \in Executors :
          timer[e].pc = "idle" /\ timer'[e].pc = "select"
            => exec[e].pc \notin {"idle", "done"}]_vars

\* the invocation has returned after a tool failure with its interval
\* cleared, while a callback that had started before is still in flight
C13_Witness ==
  /\ exec["e1"].pc = "done"
  /\ exec["e1"].outcome = "returned"
  /\ exec["e1"].exit = 1
  /\ exec["e1"].testRunId = 1
  /\ ~exec["e1"].durationUpdateInterval
  /\ timer["e1"].pc = "update"

\* C14 (as claimed): the duration that completeTestRun writes is final: once
\* a run's status is terminal, no step of the interval callback (or of
\* anything else) changes the run's persisted duration.
C14_FinalDurationIsFixed ==
  [][\A id \in DOMAIN testRuns :
       testRuns[id].status \in Terminal
         => testRuns'[id].duration = testRuns[id].duration]_vars

\* C15 (as claimed): when an exception reaches the outer catch, the
\* completeTestRun call that the catch makes finalizes the run that this
\* invocation is executing, with status 'failed', zero counts, no test cases
\* and an errorSummary that carries the exception's message; the invocation
\* then ends by throwing.
C15_CatchFinalizesOwnRun ==
  \A e \in Executors :
    /\ exec[e].pc = "completeErr"
         => /\ exec[e].call.op = "completeTestRun"
            /\ exec[e].call.id = exec[e].testRunId
            /\ exec[e].call.vals.status = "failed"
            /\ exec[e].call.vals.totalTests = 0
            /\ exec[e].call.vals.passedTests = 0
            /\ exec[e].call.vals.failedTests = 0
            /\ exec[e].call.tests = <<>>
            /\ "errorSummary" \in DOMAIN exec[e].call.vals
            /\ ValueOf(exec[e].call.vals.errorSummary).message # ""
    /\ exec[e].pc = "done" /\ exec[e].outcome = "threw"
         => exec[e].completeCalls = 1

\* C16: when the tool exits non-zero for a category the run goes on: the
\* output the failure carries is parsed by parseAndUpdateTestCounts, its
\* counts and cases are added to the running totals, completedFiles grows by
\* the category's file count, updateTestCounts and then updateFileProgress
\* are called with the new values, the loop moves to a later category or to
\* the final result, and the invocation does not throw.
C16_ToolFailureIsFolded ==
  [][\A e \in Executors :
       LET x   == exec[e]
           y   == exec'[e]
           out == ToolOutput(project.tool[x.category])
       IN  /\ (/\ x.pc = "progressBefore" /\ y.pc = "counts"
               /\ project.tool[x.category].exit # 0)
              => /\ y.exit # 0
                 /\ y.totalPassed = x.totalPassed + LinesMarked(out, passMarker)
                 /\ y.totalFailed = x.totalFailed + LinesMarked(out, failMarker)
                 /\ y.totalTests = x.totalTests + LinesMarked(out, passMarker)
                      + LinesMarked(out, failMarker) + LinesMarked(out, skipMarker)
                 /\ y.allTestResults
                      = x.allTestResults \o parseAndUpdateTestCounts(out).tests
                 /\ y.completedFiles
                      = x.completedFiles + Cardinality(CategoryFiles(x.allTestFiles, x.category))
                 /\ y.call.op = "updateTestCounts"
                 /\ y.call.pc = "update"
                 /\ y.call.vals = [totalTests  |-> y.totalTests,
                                   passedTests |-> y.totalPassed,
                                   failedTests |-> y.totalFailed]
           /\ (x.pc = "counts" /\ y.pc = "progressAfter" /\ x.exit # 0)
              => /\ y.call.op = "updateFileProgress"
                 /\ y.call.pc = "update"
                 /\ y.call.vals.completedFiles = x.completedFiles
                 /\ y.call.vals.totalFiles = x.totalFiles
           /\ (x.pc = "progressAfter" /\ Steps(e) /\ x.exit # 0)
              => y.pc \in {"progressAfter", "pause"}
           /\ (x.pc = "pause" /\ Steps(e) /\ x.exit # 0)
              => /\ y.pc \in {"progressBefore", "complete"}
                 /\ y.pc = "progressBefore" => y.category > x.category
           /\ (x.exit # 0 /\ Steps(e)) => y.outcome # "threw"]_vars

\* after a first category whose tool exited non-zero with a failed test in
\* its output, the invocation has entered the next category
C16_Witness ==
  \E e \in Executors :
    /\ exec[e].pc = "progressBefore"
    /\ exec[e].category = Len(testCategories)
    /\ exec[e].exit = 1
    /\ exec[e].totalFailed = 1
    /\ exec[e].completedFiles = 1
    /\ Len(exec[e].allTestResults) > 0

\* C17: the result that the normal path passes to completeTestRun carries
\* the accumulated counters, has status 'failed' exactly when the failed
\* count is above 0 and 'passed' otherwise, and has an errorSummary exactly
\* when the failed count is above 0, reading '<failedTests> test(s) failed';
\* for the three-files / no-files / one-file project it is 3 tests, 2
\* passed, 1 failed, status 'failed', '1 test(s) failed'.
C17_FinalResult ==
  \A e \in Executors :
    exec[e].pc = "complete" \/ (exec[e].pc = "done" /\ exec[e].outcome = "returned")
      => LET r == exec[e].completeArgs[1]
         IN  /\ r.totalTests = exec[e].totalTests
             /\ r.passedTests = exec[e].totalPassed
             /\ r.failedTests = exec[e].totalFailed
             /\ r.tests = exec[e].allTestResults
             /\ r.status = "failed" <=> r.failedTests > 0
             /\ r.status = "passed" <=> r.failedTests = 0
             /\ r.errorSummary # Null <=> r.failedTests > 0
             /\ r.errorSummary # Null
                  => ValueOf(r.errorSummary)
                       = [text |-> " test(s) failed", n |-> r.failedTests, message |-> ""]
             /\ project = EndToEndProject
                  => /\ r.totalTests = 3
                     /\ r.passedTests = 2
                     /\ r.failedTests = 1
                     /\ r.status = "failed"
                     /\ ValueOf(r.errorSummary).n = 1

\* the three-files / no-files / one-file project was run and finalized
C17_Witness ==
  /\ project = EndToEndProject
  /\ exec["e1"].pc = "done"
  /\ exec["e1"].outcome = "returned"
  /\ exec["e1"].completedFiles = 4
  /\ testRuns[1].status = "failed"
  /\ testRuns[1].totalTests = 3
  /\ testRuns[1].errorSummary # Null

\* C18 (as claimed): every marker line, matching its regular expression or
\* not, is counted and gives one entry of the tests list (suite 'unknown',
\* name the whole label when it does not match), so the list that
\* runTestSuite accumulates has as many entries as its total count.
C18_EveryMarkerLineGivesACase ==
  \A e \in Executors :
    /\ Len(exec[e].allTestResults) = exec[e].totalTests
    /\ \A j \in 1..Len(exec[e].allTestResults) :
         exec[e].allTestResults[j].suite # <<>> /\ exec[e].allTestResults[j].name # <<>>

\* the insert of a startTestRun call is answered with success in this step:
\* one row is added, 'running', with zero counters, no current file, the
\* given totalFiles and the given phase column, and its id becomes the
\* runner's testRunId
StartInserts(phase) ==
  (api.call.op = "startTestRun" /\ api.call.pc = "insert" /\ api'.call.pc = "returned")
    => /\ Len(testRuns') = Len(testRuns) + 1
       /\ SubSeq(testRuns', 1, Len(testRuns)) = testRuns
       /\ testRuns'[Len(testRuns')].status = "running"
       /\ testRuns'[Len(testRuns')].startedAt = runner.startTime
       /\ testRuns'[Len(testRuns')].totalTests = 0
       /\ testRuns'[Len(testRuns')].passedTests = 0
       /\ testRuns'[Len(testRuns')].failedTests = 0
       /\ testRuns'[Len(testRuns')].completedFiles = 0
       /\ testRuns'[Len(testRuns')].totalFiles = 1
       /\ testRuns'[Len(testRuns')].currentFile = Null
       /\ testRuns'[Len(testRuns')].currentPhase = phase
       /\ testRuns'[Len(testRuns')].duration = Null
       /\ testRuns'[Len(testRuns')].completedAt = Null
       /\ testCases' = testCases
       /\ runner'.testRunId = Len(testRuns')

\* every statement of an update or finalize call is addressed to the run
\* that the last successful startTestRun created
AddressedToActiveRun ==
  api.call.pc \in {"update", "backoff", "insertCases"}
    => api.call.id = runner.testRunId /\ api.call.id = Len(testRuns)

\* C19 (amended): startTestRun inserts exactly one row, with status
\* 'running', zero counters, completedFiles 0, the given totalFiles, no
\* current file and currentPhase 'backend', and the new row's id is the run
\* that the later update and finalize calls address.
C19_StartInsertsRunningRow ==
  [][StartInserts(Some("backend"))]_vars /\ []AddressedToActiveRun

\* C19 (as claimed): ... and currentPhase unset ...
C19_StartLeavesPhaseUnset ==
  [][StartInserts(Null)]_vars /\ []AddressedToActiveRun

\* a second run was started on the runner and a count update addressed to it
\* was written
C19_Witness ==
  /\ Len(testRuns) = 2
  /\ runner.testRunId = 2
  /\ api.call.op = "updateTestCounts"
  /\ api.call.pc = "returned"
  /\ api.call.writes = 1
  /\ testRuns[2].totalTests > 0
  /\ testRuns[1].totalTests = 0
  /\ testRuns[2].currentPhase = Some("backend")

\* C20: completeTestRun issues its terminal update once; when the store
\* fails it, the call returns without raising and without another statement,
\* no test-case row is inserted, and the run row is as it was: 'running'
\* with no completedAt when that is what it was before.
C20_CompleteIsNotRetried ==
  /\ [][(/\ api.call.op = "completeTestRun"
         /\ api.call.pc = "update"
         /\ Failed)
        => /\ api'.call.pc = "returned"
           /\ api'.call.i = 0
           /\ api'.call.writes = 0
           /\ api'.call.waited = 0
           /\ testRuns' = testRuns
           /\ testCases' = testCases]_vars
  /\ [](api.call.op = "completeTestRun"
          => /\ api.call.pc \in {"update", "insertCases", "returned"}
             /\ api.call.i = 0
             /\ api.call.waited = 0)

\* the only completeTestRun call on a started run, carrying a test case, has
\* returned after the store failed its update: the row is still 'running'
C20_Witness ==
  /\ api.call.op = "completeTestRun"
  /\ api.call.pc = "returned"
  /\ api.call.tests # <<>>
  /\ api.call.writes = 0
  /\ api.call.warns = 1
  /\ api.calls = 2
  /\ faults = 1
  /\ Len(testRuns) = 1
  /\ testRuns[1].status = "running"
  /\ testRuns[1].completedAt = Null
  /\ testCases = <<>>

\* C21 (as claimed): the deploy-ready signal is true when the run with the
\* greatest id has status 'passed' (or 'completed') and failedTests = 0, and
\* false in every other case: when that run is 'running' or 'failed',
\* whatever an earlier run shows, and when there is no run.
C21_DeployReadyIffLatestPassed ==
  DeployReady(testRuns)
    = IF /\ testRuns # <<>>
         /\ testRuns[Len(testRuns)].status \in {"passed", "completed"}
         /\ testRuns[Len(testRuns)].failedTests = 0
      THEN "true"
      ELSE "false"

\* the categories after category k that have files
Nonempty(e, k) ==
  {j \in (k + 1)..Len(testCategories) : CategoryFiles(exec[e].allTestFiles, j) # {}}

\* C22: an invocation processes the categories with files one at a time in
\* the order of the list, and for each of them calls updateFileProgress
\* (its name, completedFiles before it), runs the tool once, calls
\* updateTestCounts (the totals so far) and then updateFileProgress
\* ('Completed ...', completedFiles after it); it enters the next category
\* only after that last call has returned and the pause is over.
C22_CategoriesInOrder ==
  [][\A e \in Executors :
       LET x == exec[e]
           y == exec'[e]
       IN  Steps(e) =>
             /\ y.pc = "progressBefore" /\ x.pc # "progressBefore"
                  => /\ x.pc \in {"start", "pause"}
                     /\ y.category \in Nonempty(e, x.category)
                     /\ \A j \in Nonempty(e, x.category) : y.category <= j
                     /\ y.call.op = "updateFileProgress"
                     /\ y.call.vals.currentFile = Some(<<testCategories[y.category].name>>)
                     /\ y.call.vals.currentPhase = Some(testCategories[y.category].phase)
                     /\ y.call.vals.completedFiles = x.completedFiles
                     /\ y.completedFiles = x.completedFiles
                     /\ y.totalTests = x.totalTests
             /\ y.pc = "counts" /\ x.pc # "counts"
                  => /\ x.pc = "progressBefore"
                     /\ x.call.pc = "update"
                     /\ y.category = x.category
                     /\ y.call.op = "updateTestCounts"
                     /\ y.call.vals = [totalTests  |-> y.totalTests,
                                       passedTests |-> y.totalPassed,
                                       failedTests |-> y.totalFailed]
                     /\ y.completedFiles
                          = x.completedFiles
                            + Cardinality(CategoryFiles(x.allTestFiles, x.category))
             /\ y.pc = "progressAfter" /\ x.pc # "progressAfter"
                  => /\ x.pc = "counts"
                     /\ x.call.pc = "update"
                     /\ y.category = x.category
                     /\ y.call.op = "updateFileProgress"
                     /\ y.call.vals.currentFile
                          \in {Some(<<"Completed ", testCategories[x.category].name>>),
                               Some(<<"Completed ", testCategories[x.category].name,
                                      " (with errors)">>)}
                     /\ y.call.vals.completedFiles = x.completedFiles
                     /\ y.totalTests = x.totalTests
             /\ y.pc = "pause"
                  => /\ x.pc = "progressAfter"
                     /\ x.call.pc = "update"
                     /\ y.category = x.category
             /\ y.pc = "complete" /\ x.pc # "complete"
                  => /\ x.pc \in {"start", "pause"}
                     /\ Nonempty(e, x.category) = {}
             /\ x.pc \in {"progressBefore", "counts", "progressAfter"} /\ y.pc = x.pc
                  => /\ y.category = x.category
                     /\ y.completedFiles = x.completedFiles
                     /\ y.totalTests = x.totalTests
                     /\ y.call.op = x.call.op
                     /\ y.call.vals = x.call.vals]_vars

\* an invocation is in the pause after its second category: four progress
\* calls, with completedFiles 0, 1, 1 and 2
C22_Witness ==
  \E e \in Executors :
    /\ exec[e].pc = "pause"
    /\ exec[e].category = Len(testCategories)
    /\ exec[e].progressArgs = <<0, 1, 1, 2>>
    /\ exec[e].totalTests > 0

\* C23: a category none of whose files was discovered is skipped: the step
\* that passes over it issues no updateFileProgress and no updateTestCounts
\* for it, runs no tool for it and leaves the running totals, the results
\* and completedFiles as they were; only categories with files are entered.
C23_EmptyCategoryIsSkipped ==
  [][\A e \in Executors :
       LET x == exec[e]
           y == exec'[e]
           passed == IF y.pc = "complete"
                     THEN (x.category + 1)..Len(testCategories)
                     ELSE (x.category + 1)..(y.category - 1)
       IN  /\ y.category # 0 => CategoryFiles(y.allTestFiles, y.category) # {}
           /\ Steps(e) /\ x.pc \in {"start", "pause"}
                       /\ y.pc \in {"progressBefore", "complete"}
                => /\ \A j \in passed : CategoryFiles(y.allTestFiles, j) = {}
                   /\ y.call.op # "updateTestCounts"
                   /\ y.call.op = "updateFileProgress"
                        => /\ y.progressArgs = Append(x.progressArgs, x.completedFiles)
                           /\ y.call.vals.currentFile
                                = Some(<<testCategories[y.category].name>>)
                   /\ y.call.op # "updateFileProgress"
                        => y.progressArgs = x.progressArgs
                   /\ y.totalTests = x.totalTests
                   /\ y.totalPassed = x.totalPassed
                   /\ y.totalFailed = x.totalFailed
                   /\ y.allTestResults = x.allTestResults
                   /\ y.exit = x.exit
                   /\ y.completedFiles = x.completedFiles]_vars

\* an invocation passed over the first six categories, which have no files,
\* and made its first progress call for the seventh
C23_Witness ==
  \E e \in Executors :
    /\ exec[e].pc = "progressBefore"
    /\ exec[e].category = Len(testCategories)
    /\ exec[e].progressArgs = <<0>>
    /\ exec[e].totalTests = 0

\* the number of the first n lines that begin with the marker / that begin
\* with it once the white space around them is removed
Beginning(lines, n, marker) ==
  Cardinality({j \in 1..n : StartsWith(lines[j], marker)})

BeginningTrimmed(lines, n, marker) ==
  Cardinality({j \in 1..n : StartsWith(Trim(lines[j]), marker)})

Markers == {passMarker, failMarker, skipMarker}

\* C24 (amended): after every line of the loop, passed is the number of
\* lines so far that begin, once trimmed, with the pass marker, failed the
\* number that begin with the fail marker, and total is passed + failed + the
\* number that begin with the skip marker; a line that begins with none of
\* the three changes neither the counts nor the results, and a line adds at
\* most one result, at the end of the list.
C24_CountsAreMarkedLines ==
  [][parse' # parse /\ parse.pc = "loop" =>
       LET n    == parse'.i
           s    == parse.stats
           t    == parse'.stats
       IN  /\ t.passed = BeginningTrimmed(parse.lines, n, passMarker)
           /\ t.failed = BeginningTrimmed(parse.lines, n, failMarker)
           /\ t.total = t.passed + t.failed
                        + BeginningTrimmed(parse.lines, n, skipMarker)
           /\ parse'.pc = "returned" =>
                /\ n = Len(parse.lines)
                /\ t = parseAndUpdateTestCounts(parse.output)
           /\ (n > parse.i /\ \A m \in Markers : ~StartsWith(Trim(parse.lines[n]), m))
                => t = s
           /\ \/ t.tests = s.tests
              \/ /\ n > parse.i
                 /\ \E m \in Markers : StartsWith(Trim(parse.lines[n]), m)
                 /\ Len(t.tests) = Len(s.tests) + 1
                 /\ SubSeq(t.tests, 1, Len(s.tests)) = s.tests]_vars

\* C24 (as claimed): ... the number of lines that begin with the marker.
C24_CountsAreLinesStartingWithMarker ==
  [][parse' # parse /\ parse.pc = "loop" =>
       LET n    == parse'.i
           s    == parse.stats
           t    == parse'.stats
       IN  /\ t.passed = Beginning(parse.lines, n, passMarker)
           /\ t.failed = Beginning(parse.lines, n, failMarker)
           /\ t.total = t.passed + t.failed + Beginning(parse.lines, n, skipMarker)
           /\ (n > parse.i /\ \A m \in Markers : ~StartsWith(parse.lines[n], m))
                => t = s
           /\ \/ t.tests = s.tests
              \/ /\ Len(t.tests) = Len(s.tests) + 1
                 /\ SubSeq(t.tests, 1, Len(s.tests)) = s.tests]_vars

\* the parser returned from a text with a pass line, an indented fail line
\* and a skip line: three lines counted, three results in line order
C24_Witness ==
  /\ parse.pc = "returned"
  /\ parse.stats.passed = 1
  /\ parse.stats.failed = 1
  /\ parse.stats.total = 3
  /\ Len(parse.stats.tests) = 3
  /\ parse.stats.tests[1].status = "passed"
  /\ parse.stats.tests[2].status = "failed"
  /\ parse.stats.tests[3].status = "skipped"
  /\ ~StartsWith(parse.lines[2], failMarker)

\* C25 (as claimed): a run whose status is 'running' has no test-case rows,
\* test-case rows are inserted only by a completeTestRun whose status update
\* succeeded, one per entry of result.tests with the id of the run that
\* update finalized, and none is inserted when result.tests is empty.
C25_CasesOnlyOfFinalizedRun ==
  /\ \A k \in 1..Len(testCases) :
       /\ testCases[k].testRunId \in DOMAIN testRuns
       /\ testRuns[testCases[k].testRunId].status # "running"
  /\ \A e \in Executors :
       exec[e].call.pc = "insertCases"
         => /\ exec[e].call.op = "completeTestRun"
            /\ Len(exec[e].call.tests) > 0
            /\ exec[e].call.writes = 1
            /\ testRuns[exec[e].call.id].status \in Terminal

\* C26 (as claimed): a run row whose errorSummary is set has status 'failed'
\* and failedTests >= 1.
C26_ErrorSummaryMeansFailures ==
  \A id \in DOMAIN testRuns :
    testRuns[id].errorSummary # Null
      => /\ testRuns[id].status = "failed"
         /\ testRuns[id].failedTests >= 1

\* C27 (as claimed): when every earlier run is finalized and an invocation
\* fails before it has a row of its own, the completeTestRun of its error
\* path changes no row of the test-runs table and no test-case row.
C27_ErrorPathWritesNoEarlierRun ==
  [][\A e \in Executors :
       (/\ exec[e].pc = "completeErr"
        /\ exec[e].testRunId = 0
        /\ Steps(e)
        /\ \A id \in DOMAIN testRuns : testRuns[id].status \in Terminal
        /\ \A o \in Executors \ {e} : exec[o].pc \in {"idle", "done"})
       => /\ testRuns' = testRuns
          /\ testCases' = testCases]_vars

\* C28 (as claimed): when two invocations overlap, every statement of an
\* updateFileProgress, updateTestCounts or completeTestRun that an
\* invocation issues names the row that its own startTestRun created, and
\* once both have ended, no terminal update having failed, both rows are
\* terminal.
C28_WritesGoToOwnRun ==
  /\ \A e \in Executors :
       (exec[e].testRunId # 0 /\ exec[e].call.pc \in {"update", "insertCases"})
         => exec[e].call.id = exec[e].testRunId
  /\ (/\ \A e \in Executors : exec[e].pc = "done" /\ exec[e].testRunId # 0
      /\ \A e \in Executors : ~exec[e].finalizeFailed)
       => \A e \in Executors : testRuns[exec[e].testRunId].status \in Terminal

\* C29: completeTestRun writes the terminal status and the counters first
\* and inserts the test cases afterwards; when the store fails the insert,
\* the run row keeps what the update wrote, no test-case row is added, and
\* the call logs the error and returns without raising it.
C29_FailedInsertKeepsStatus ==
  /\ [](api.call.pc = "insertCases"
          => /\ api.call.op = "completeTestRun"
             /\ api.call.writes = 1
             /\ testRuns[api.call.id].status = api.call.vals.status
             /\ testRuns[api.call.id].status \in Terminal)
  /\ [][(api.call.pc = "insertCases" /\ Failed)
          => /\ testRuns' = testRuns
             /\ testRuns'[api.call.id].status \in Terminal
             /\ testCases' = testCases
             /\ api'.call.pc = "returned"
             /\ api'.call.writes = 1
             /\ api'.call.warns = api.call.warns + 1]_vars

\* a completeTestRun with one test case has returned after the store failed
\* its insert: the run is 'passed' and has no test-case row
C29_Witness ==
  /\ api.call.op = "completeTestRun"
  /\ api.call.pc = "returned"
  /\ api.call.writes = 1
  /\ api.call.warns = 1
  /\ Len(api.call.tests) = 1
  /\ testRuns[api.call.id].status = "passed"
  /\ testCases = <<>>

\* the discovered files that lie under one of the category prefixes
UnderSomeCategory(files) ==
  {file \in files :
     \E k \in 1..Len(testCategories) : PathStartsWith(file, testCategories[k].pattern)}

\* the completedFiles of run id against its totalFiles
CompletedIsCategorized(runs, id, files) ==
  /\ runs[id].completedFiles = Cardinality(UnderSomeCategory(files))
  /\ runs[id].totalFiles = Cardinality(files)
  /\ UnderSomeCategory(files) = files => runs[id].completedFiles = runs[id].totalFiles
  /\ UnderSomeCategory(files) # files => runs[id].completedFiles < runs[id].totalFiles

\* C30: the completedFiles that the last updateFileProgress of a run writes,
\* and that the run row holds when the invocation has returned without a
\* failed statement, is the number of discovered files under one of the
\* seven category prefixes: totalFiles when every discovered file lies under
\* a prefix, less than totalFiles otherwise.
C30_CompletedIsCategorizedFiles ==
  /\ [](\A e \in Executors :
          (exec[e].pc = "done" /\ exec[e].outcome = "returned" /\ faults = 0)
            => CompletedIsCategorized(testRuns, exec[e].testRunId, exec[e].allTestFiles))
  /\ [][\A e \in Executors :
          (/\ exec[e].pc = "progressAfter"
           /\ exec[e].call.pc = "update"
           /\ Nonempty(e, exec[e].category) = {}
           /\ Steps(e)
           /\ ~Failed)
          => CompletedIsCategorized(testRuns', exec[e].testRunId, exec[e].allTestFiles)]_vars

\* a run over a project with one file outside every category has returned:
\* its row holds completedFiles 2 of totalFiles 3
C30_Witness ==
  \E e \in Executors :
    /\ exec[e].pc = "done"
    /\ exec[e].outcome = "returned"
    /\ faults = 0
    /\ testRuns[exec[e].testRunId].status \in Terminal
    /\ testRuns[exec[e].testRunId].completedFiles = 2
    /\ testRuns[exec[e].testRunId].totalFiles = 3

====
